---- MODULE Spec2Model ----
(***************************************************************************)
(* Model of the security-valuator data layer: the disk cache wrapper       *)
(* (support/financial_cache.py) and the Intrinio data provider             *)
(* (data_provider/intrinio_data.py).                                       *)
(*                                                                         *)
(* Python values are records tagged with their type, so that None, "" and  *)
(* API response objects can be told apart the way the code tells them      *)
(* apart.  The external Intrinio API is the environment: each call either  *)
(* raises ApiException, raises some other exception, or returns a response *)
(* object, chosen nondeterministically.  The eviction of the underlying    *)
(* diskcache store (size cap 4e9 bytes) is not modelled.                   *)
(***************************************************************************)
EXTENDS Integers, Sequences, FiniteSets, TLC

VARIABLES
  store,    \* FinancialCache.cache: the diskcache mapping key -> value
  written,  \* history: per key, the value of the latest effective write
  last,     \* the most recent operation: request, outcome, API calls, writes
  n         \* number of operations performed so far

vars == <<store, written, last, n>>

-----------------------------------------------------------------------------
(* Bounds and input sets *)

MaxOps == 2

Tickers == {"AAPL", "aapl"}
Years == {2018, 2019}
Day1 == <<2019, 10, 1>>
Day2 == <<2019, 10, 2>>
PriceRanges == {<<Day1, Day2>>}
SeriesTags == {"totalrevenue"}
SingleTags == {"adjdilutedeps"}
StatementNames == {"income_statement"}
StatementTickers == {"aapl"}
MetricRanges == {<<2018, 2018>>, <<2018, 2019>>}

-----------------------------------------------------------------------------
(* Python values *)

PyNone == [type |-> "NoneType"]
PyStr(s) == [type |-> "str", s |-> s]
PyList(items) == [type |-> "list", items |-> items]

EmptyDict == <<>>
DictPut(d, k, v) == [x \in (DOMAIN d) \cup {k} |-> IF x = k THEN v ELSE d[x]]

-----------------------------------------------------------------------------
(* The external API: outcomes of one call *)

ApiException == [kind |-> "ApiException"]
OtherException == [kind |-> "Exception"]
Response(body) == [kind |-> "response", body |-> body]

StockPrices(list) == [type |-> "ApiResponseSecurityStockPrices", stock_prices |-> list]
Price(d, c) == [date |-> d, close |-> c]
PriceLists == {<<>>, <<Price(Day1, 100)>>, <<Price(Day1, 100), Price(Day2, 101)>>}
PriceOutcomes == {ApiException, OtherException} \cup {Response(StockPrices(l)) : l \in PriceLists}

HistoricalData(list) == [type |-> "ApiResponseCompanyHistoricalData", historical_data |-> list]
DataPoint(year, v) == [date |-> <<year, 12, 31>>, value |-> v]
HistoricalLists ==
  {<<>>, <<DataPoint(2018, 123)>>, <<DataPoint(2018, 123), DataPoint(2019, 234)>>}
MetricOutcomes ==
  {ApiException, OtherException} \cup {Response(HistoricalData(l)) : l \in HistoricalLists}

Financials(list) == [type |-> "ApiResponseStandardizedFinancials", standardized_financials |-> list]
Financial(tag, v) == [data_tag |-> [tag |-> tag], value |-> v]
FinancialLists ==
  {<<Financial("totalrevenue", 1000), Financial("other", 5)>>,
   <<Financial("totalrevenue", 1100)>>,
   <<Financial("other", 7), Financial("totalrevenue", 8), Financial("totalrevenue", 9)>>}
StatementOutcomes ==
  {ApiException, OtherException} \cup {Response(Financials(l)) : l \in FinancialLists}
TagFilters == {PyNone, PyList(<<>>), PyList(<<"totalrevenue">>)}

\* what the fundamentals API answers for each year it may be asked about; a year
\* outside the request is never asked about, so its answer is fixed
StatementApis(year_from, year_to) ==
  {api \in [Years -> StatementOutcomes] :
     \A y \in Years : (y < year_from \/ y > year_to) => api[y] = ApiException}

\* keys and values handed to the cache directly, beside the data provider
DirectKeys == {PyNone, PyStr(""), PyStr("k1"), PyStr("k2")}
DirectValues == {PyNone, PyStr(""), PyStr("v1"), PyStr("v2")}

-----------------------------------------------------------------------------
(* support/financial_cache.py *)

\* diskcache Cache.__getitem__: the stored value, KeyError when the key is unset
cache_getitem(s, key) ==
  IF key \in DOMAIN s
    THEN [raised |-> "none", value |-> s[key]]
    ELSE [raised |-> "KeyError", value |-> PyNone]

\* diskcache Cache.__setitem__
cache_setitem(s, key, value) == DictPut(s, key, value)

\* FinancialCache.read with the except clause missing
read_uncaught(s, key) == cache_getitem(s, key)

\* FinancialCache.read never finding the key
read_always_miss(s, key) == [raised |-> "none", value |-> PyNone]

\* FinancialCache.read
read(s, key) ==
  LET r == cache_getitem(s, key)
  IN IF r.raised = "KeyError" THEN [raised |-> "none", value |-> PyNone] ELSE r

\* FinancialCache.write without the guard on the value
write_unguarded(s, key, value) ==
  IF key = PyStr("") \/ key = PyNone THEN s ELSE cache_setitem(s, key, value)

\* FinancialCache.write losing the value: nothing is stored
write_lost(s, key, value) == s

\* FinancialCache.write
write(s, key, value) ==
  IF (key = PyStr("") \/ key = PyNone) \/ (value = PyStr("") \/ value = PyNone)
    THEN s
    ELSE cache_setitem(s, key, value)

-----------------------------------------------------------------------------
(* data_provider/intrinio_util.py *)

Pad2(k) == IF k < 10 THEN "0" \o ToString(k) ELSE ToString(k)

\* date -> "YYYY-MM-DD"
date_to_string(d) == ToString(d[1]) \o "-" \o Pad2(d[2]) \o "-" \o Pad2(d[3])

\* the first and last day of the fiscal (calendar) year, as strings
get_fiscal_year_period(year, extend_by_days) ==
  <<date_to_string(<<year, 1, 1>>), date_to_string(<<year, 12, 31 + extend_by_days>>)>>

-----------------------------------------------------------------------------
(* Outcome of one operation *)

NoValue == <<>>

Out(s, raised, cause, value, calls, writes, response) ==
  [store |-> s, raised |-> raised, cause |-> cause, value |-> value,
   calls |-> calls, writes |-> writes, response |-> response]

Call(key, request, outcome) == [key |-> key, request |-> request, outcome |-> outcome]
Wrote(key, value) == [key |-> key, value |-> value]

-----------------------------------------------------------------------------
(* data_provider/intrinio_data.py *)

INTRINIO_CACHE_PREFIX == "intrinio"

price_cache_key(ticker, start_date_str, end_date_str) ==
  INTRINIO_CACHE_PREFIX \o "-" \o ticker \o "-" \o start_date_str \o "-"
    \o end_date_str \o "-" \o "closing-prices"

\* "len(price_list) == 0" dropped: an empty list passes as data
no_prices_unchecked(price_list) == FALSE

\* "len(price_list) == 0"
no_prices(price_list) == Len(price_list) = 0

RECURSIVE price_dict_from(_, _)
\* the for loop over price_list, filling price_dict
price_dict_from(price_list, price_dict) ==
  IF price_list = <<>> THEN price_dict
  ELSE price_dict_from(Tail(price_list),
         DictPut(price_dict, date_to_string(Head(price_list).date), Head(price_list).close))

get_daily_stock_close_prices(s, ticker, start_date, end_date, api) ==
  LET start_date_str == date_to_string(start_date)
      end_date_str == date_to_string(end_date)
      cache_key == PyStr(price_cache_key(ticker, start_date_str, end_date_str))
      cached == read(s, cache_key).value
      miss == cached = PyNone
      request == [api |-> "get_security_stock_prices", identifier |-> ticker,
                  start_date |-> start_date_str, end_date |-> end_date_str,
                  frequency |-> "daily", page_size |-> 100]
      calls == IF miss THEN <<Call(cache_key, request, api)>> ELSE <<>>
  IN IF miss /\ api.kind = "ApiException"
       THEN Out(s, "DataError", "ApiException", NoValue, calls, <<>>, PyNone)
     ELSE IF miss /\ api.kind = "Exception"
       THEN Out(s, "ValidationError", "Exception", NoValue, calls, <<>>, PyNone)
     ELSE
       LET api_response == IF miss THEN api.body ELSE cached
           s2 == IF miss THEN write(s, cache_key, api_response) ELSE s
           writes == IF miss THEN <<Wrote(cache_key, api_response)>> ELSE <<>>
           price_list == api_response.stock_prices
       IN IF no_prices(price_list)
            THEN Out(s2, "DataError", "none", NoValue, calls, writes, api_response)
            ELSE Out(s2, "none", "none", price_dict_from(price_list, EmptyDict),
                     calls, writes, api_response)

metric_cache_key(ticker, start_year, end_year, frequency, tag) ==
  INTRINIO_CACHE_PREFIX \o "-" \o "metric" \o "-" \o ticker \o "-" \o ToString(start_year)
    \o "-" \o ToString(end_year) \o "-" \o frequency \o "-" \o tag

\* "len(api_response.historical_data) == 0" dropped: an empty list passes as data
no_historical_data_unchecked(historical_data) == FALSE

\* "len(api_response.historical_data) == 0"
no_historical_data(historical_data) == Len(historical_data) = 0

RECURSIVE converted_response_from(_, _)
\* the for loop over historical_data, filling converted_response
converted_response_from(historical_data, converted_response) ==
  IF historical_data = <<>> THEN converted_response
  ELSE converted_response_from(Tail(historical_data),
         DictPut(converted_response, Head(historical_data).date[1], Head(historical_data).value))

\* __read_financial_metrics__ checking for zero records before it writes to the
\* cache: an empty response is not cached
read_financial_metrics_check_first(s, ticker, start_year, end_year, tag, api) ==
  LET start_date == get_fiscal_year_period(start_year, 0)[1]
      end_date == get_fiscal_year_period(end_year, 0)[2]
      frequency == "yearly"
      cache_key == PyStr(metric_cache_key(ticker, start_year, end_year, frequency, tag))
      cached == read(s, cache_key).value
      miss == cached = PyNone
      request == [api |-> "get_company_historical_data", identifier |-> ticker, tag |-> tag,
                  frequency |-> frequency, start_date |-> start_date, end_date |-> end_date]
      calls == IF miss THEN <<Call(cache_key, request, api)>> ELSE <<>>
  IN IF miss /\ api.kind = "ApiException"
       THEN Out(s, "DataError", "ApiException", NoValue, calls, <<>>, PyNone)
     ELSE IF miss /\ api.kind = "Exception"
       THEN Out(s, "ValidationError", "Exception", NoValue, calls, <<>>, PyNone)
     ELSE
       LET api_response == IF miss THEN api.body ELSE cached
           historical_data == api_response.historical_data
       IN IF no_historical_data(historical_data)
            THEN Out(s, "DataError", "none", NoValue, calls, <<>>, api_response)
            ELSE Out(IF miss THEN write(s, cache_key, api_response) ELSE s, "none", "none",
                     converted_response_from(historical_data, EmptyDict), calls,
                     IF miss THEN <<Wrote(cache_key, api_response)>> ELSE <<>>, api_response)

read_financial_metrics(s, ticker, start_year, end_year, tag, api) ==
  LET start_date == get_fiscal_year_period(start_year, 0)[1]
      end_date == get_fiscal_year_period(end_year, 0)[2]
      frequency == "yearly"
      cache_key == PyStr(metric_cache_key(ticker, start_year, end_year, frequency, tag))
      cached == read(s, cache_key).value
      miss == cached = PyNone
      request == [api |-> "get_company_historical_data", identifier |-> ticker, tag |-> tag,
                  frequency |-> frequency, start_date |-> start_date, end_date |-> end_date]
      calls == IF miss THEN <<Call(cache_key, request, api)>> ELSE <<>>
  IN IF miss /\ api.kind = "ApiException"
       THEN Out(s, "DataError", "ApiException", NoValue, calls, <<>>, PyNone)
     ELSE IF miss /\ api.kind = "Exception"
       THEN Out(s, "ValidationError", "Exception", NoValue, calls, <<>>, PyNone)
     ELSE
       LET api_response == IF miss THEN api.body ELSE cached
           s2 == IF miss THEN write(s, cache_key, api_response) ELSE s
           writes == IF miss THEN <<Wrote(cache_key, api_response)>> ELSE <<>>
           historical_data == api_response.historical_data
       IN IF no_historical_data(historical_data)
            THEN Out(s2, "DataError", "none", NoValue, calls, writes, api_response)
            ELSE Out(s2, "none", "none", converted_response_from(historical_data, EmptyDict),
                     calls, writes, api_response)

\* __read_financial_metric__ with a default in place of the lookup: metrics.get(year, 0)
read_financial_metric_default(s, ticker, year, tag, api) ==
  LET metrics == read_financial_metrics(s, ticker, year, year, tag, api)
  IN IF metrics.raised # "none" THEN metrics
     ELSE [metrics EXCEPT !.value =
             [scalar |-> IF year \in DOMAIN metrics.value THEN metrics.value[year] ELSE 0]]

read_financial_metric(s, ticker, year, tag, api) ==
  LET metrics == read_financial_metrics(s, ticker, year, year, tag, api)
  IN IF metrics.raised # "none" THEN metrics
     ELSE IF year \in DOMAIN metrics.value
       THEN [metrics EXCEPT !.value = [scalar |-> metrics.value[year]]]
       ELSE [metrics EXCEPT !.raised = "KeyError", !.value = NoValue]

\* str.upper on the tickers of the model
upper(ticker) == IF ticker = "aapl" THEN "AAPL" ELSE ticker

statement_cache_key(ticker, statement_name, statement_type, i) ==
  INTRINIO_CACHE_PREFIX \o "-" \o "statement" \o "-" \o ticker \o "-" \o statement_name
    \o "-" \o statement_type \o "-" \o ToString(i)

\* "financial.data_tag.tag in tag_filter_list"
InList(x, list) == \E j \in 1..Len(list.items) : list.items[j] = x

RECURSIVE transform_loop(_, _, _)
\* the for loop of __transform_financial_stmt__, filling results
transform_loop(std_financials_list, tag_filter_list, results) ==
  IF std_financials_list = <<>> THEN results
  ELSE LET financial == Head(std_financials_list)
       IN transform_loop(Tail(std_financials_list), tag_filter_list,
            IF tag_filter_list = PyNone \/ InList(financial.data_tag.tag, tag_filter_list)
              THEN DictPut(results, financial.data_tag.tag, financial.value)
              ELSE results)

\* __transform_financial_stmt__ ignoring the filter
transform_unfiltered(std_financials_list, tag_filter_list) ==
  transform_loop(std_financials_list, PyNone, EmptyDict)

transform_financial_stmt(std_financials_list, tag_filter_list) ==
  transform_loop(std_financials_list, tag_filter_list, EmptyDict)

RECURSIVE statement_loop(_, _, _, _, _, _, _)
\* the for loop of __read_historical_financial_statement__ from year i on; acc holds
\* the cache, hist_statements and the logs of API calls and cache writes so far
statement_loop(acc, ticker, statement_name, i, year_to, tag_filter_list, api) ==
  IF i > year_to
    THEN Out(acc.store, "none", "none", acc.hist_statements, acc.calls, acc.writes, PyNone)
  ELSE
    LET statement_type == "FY"
        satement_name == ticker \o "-" \o statement_name \o "-" \o ToString(i)
                           \o "-" \o statement_type
        cache_key == PyStr(statement_cache_key(ticker, statement_name, statement_type, i))
        cached == read(acc.store, cache_key).value
        miss == cached = PyNone
        request == [api |-> "get_fundamental_standardized_financials", id |-> satement_name]
        calls == IF miss THEN Append(acc.calls, Call(cache_key, request, api[i])) ELSE acc.calls
    IN IF miss /\ api[i].kind = "ApiException"
         THEN Out(acc.store, "DataError", "ApiException", NoValue, calls, acc.writes, PyNone)
       ELSE IF miss /\ api[i].kind = "Exception"
         THEN Out(acc.store, "Exception", "Exception", NoValue, calls, acc.writes, PyNone)
       ELSE
         LET statement == IF miss THEN api[i].body ELSE cached
         IN statement_loop(
              [store |-> IF miss THEN write(acc.store, cache_key, statement) ELSE acc.store,
               hist_statements |->
                 DictPut(acc.hist_statements, i,
                         transform_financial_stmt(statement.standardized_financials,
                                                  tag_filter_list)),
               calls |-> calls,
               writes |-> IF miss THEN Append(acc.writes, Wrote(cache_key, statement))
                          ELSE acc.writes],
              ticker, statement_name, i + 1, year_to, tag_filter_list, api)

\* __read_historical_financial_statement__ swallowing the API error of a year and
\* returning the years read so far
read_statement_partial(s, ticker, statement_name, year_from, year_to, tag_filter_list, api) ==
  LET r == statement_loop([store |-> s, hist_statements |-> EmptyDict, calls |-> <<>>,
                           writes |-> <<>>],
                          upper(ticker), statement_name, year_from, year_to, tag_filter_list, api)
  IN IF r.raised = "DataError" THEN [r EXCEPT !.raised = "none", !.value = EmptyDict] ELSE r

\* __read_historical_financial_statement__ writing to the cache only once the whole
\* range was read: a failure leaves the years read before it unwritten
read_statement_deferred_writes(s, ticker, statement_name, year_from, year_to, tag_filter_list, api) ==
  LET r == statement_loop([store |-> s, hist_statements |-> EmptyDict, calls |-> <<>>,
                           writes |-> <<>>],
                          upper(ticker), statement_name, year_from, year_to, tag_filter_list, api)
  IN IF r.raised # "none" THEN [r EXCEPT !.store = s, !.writes = <<>>] ELSE r

read_historical_financial_statement(s, ticker, statement_name, year_from, year_to, tag_filter_list, api) ==
  statement_loop([store |-> s, hist_statements |-> EmptyDict, calls |-> <<>>, writes |-> <<>>],
                 upper(ticker), statement_name, year_from, year_to, tag_filter_list, api)

\* get_historical_income_stmt, get_historical_balance_sheet, get_historical_cashflow_stmt
get_historical_statement(s, ticker, statement_name, year_from, year_to, tag_filter_list, api) ==
  read_historical_financial_statement(s, upper(ticker), statement_name, year_from, year_to,
                                      tag_filter_list, api)

-----------------------------------------------------------------------------
(* The state machine *)

NoBefore == [calls |-> <<>>, raised |-> "none", cause |-> "none"]

Effective(w) ==
  /\ w.key # PyStr("") /\ w.key # PyNone
  /\ w.value # PyStr("") /\ w.value # PyNone

RECURSIVE Record(_, _)
\* the history of effective writes after a log of cache.write invocations
Record(h, writes) ==
  IF writes = <<>> THEN h
  ELSE Record(IF Effective(Head(writes))
                THEN DictPut(h, Head(writes).key, Head(writes).value) ELSE h,
              Tail(writes))

Init ==
  /\ store = EmptyDict
  /\ written = EmptyDict
  /\ last = [op |-> "init", req |-> [none |-> TRUE], raised |-> "none", cause |-> "none",
             value |-> NoValue, calls |-> <<>>, writes |-> <<>>, response |-> PyNone,
             again |-> FALSE, before |-> NoBefore]
  /\ n = 0

Do(op, req, out) ==
  LET same == last.op = op /\ last.req = req
  IN /\ n < MaxOps
     /\ n' = n + 1
     /\ store' = out.store
     /\ written' = Record(written, out.writes)
     /\ last' = [op |-> op, req |-> req, raised |-> out.raised, cause |-> out.cause,
                 value |-> out.value, calls |-> out.calls, writes |-> out.writes,
                 response |-> out.response, again |-> same,
                 before |-> IF same
                              THEN [calls |-> last.calls, raised |-> last.raised,
                                    cause |-> last.cause]
                              ELSE NoBefore]

GetDailyStockClosePrices ==
  \E ticker \in Tickers, range \in PriceRanges, api \in PriceOutcomes :
    Do("get_daily_stock_close_prices",
       [ticker |-> ticker, start_date |-> range[1], end_date |-> range[2]],
       get_daily_stock_close_prices(store, ticker, range[1], range[2], api))

ReadFinancialMetrics ==
  \E ticker \in Tickers, range \in MetricRanges, tag \in SeriesTags, api \in MetricOutcomes :
    Do("read_financial_metrics",
       [ticker |-> ticker, start_year |-> range[1], end_year |-> range[2], tag |-> tag],
       read_financial_metrics(store, ticker, range[1], range[2], tag, api))

ReadFinancialMetric ==
  \E ticker \in Tickers, year \in Years, tag \in SingleTags, api \in MetricOutcomes :
    Do("read_financial_metric",
       [ticker |-> ticker, year |-> year, tag |-> tag],
       read_financial_metric(store, ticker, year, tag, api))

GetHistoricalStatement ==
  \E ticker \in StatementTickers, statement_name \in StatementNames, year_from \in Years,
     year_to \in Years, tag_filter_list \in TagFilters :
    \E api \in StatementApis(year_from, year_to) :
    Do("get_historical_statement",
       [ticker |-> ticker, statement_name |-> statement_name, year_from |-> year_from,
        year_to |-> year_to, tag_filter_list |-> tag_filter_list],
       get_historical_statement(store, ticker, statement_name, year_from, year_to,
                                tag_filter_list, api))

\* a direct cache.write(key, value)
CacheWrite ==
  \E key \in DirectKeys, value \in DirectValues :
    Do("write", [key |-> key, value |-> value],
       Out(write(store, key, value), "none", "none", NoValue, <<>>,
           <<Wrote(key, value)>>, PyNone))

\* a direct cache.read(key)
CacheRead ==
  \E key \in DirectKeys :
    LET r == read(store, key)
    IN Do("read", [key |-> key],
          Out(store, r.raised, "none", [object |-> r.value], <<>>, <<>>, PyNone))

Next ==
  \/ GetDailyStockClosePrices
  \/ ReadFinancialMetrics
  \/ ReadFinancialMetric
  \/ GetHistoricalStatement
  \/ CacheWrite
  \/ CacheRead

Spec == Init /\ [][Next]_vars

-----------------------------------------------------------------------------
(* Vocabulary of the properties *)

IsPrice == last.op = "get_daily_stock_close_prices"
IsMetrics == last.op = "read_financial_metrics"
IsMetric == last.op = "read_financial_metric"
IsStatement == last.op = "get_historical_statement"
IsProvider == IsPrice \/ IsMetrics \/ IsMetric \/ IsStatement

Returned == last.raised = "none"
NumCalls == Len(last.calls)

-----------------------------------------------------------------------------
(* C1 *)

\* C1 as stated: two price fetches in a row with identical arguments issue at most
\* one external call in total, whatever the outcome of the first (success,
\* zero-record response, API error).
C1_TwoIdenticalPriceFetchesOneCall ==
  (IsPrice /\ last.again) => Len(last.before.calls) + NumCalls <= 1

\* C1 amended: when the first of two identical price fetches in a row got a response
\* from the API (with or without records) or was itself served from the cache, the
\* second issues no external call and the two issue at most one in total; when the
\* first call's API call failed, nothing was cached and the second calls the API again.
C1_SecondPriceFetchFromCacheUnlessApiFailed ==
  (IsPrice /\ last.again) =>
    IF last.before.cause = "none"
      THEN NumCalls = 0 /\ Len(last.before.calls) + NumCalls <= 1
      ELSE Len(last.before.calls) = 1 /\ NumCalls = 1

\* a zero-record first fetch followed by an identical fetch served from the cache
C1_Witness ==
  /\ IsPrice /\ last.again
  /\ Len(last.before.calls) = 1 /\ last.before.cause = "none"
  /\ last.before.raised = "DataError"
  /\ NumCalls = 0

-----------------------------------------------------------------------------
(* C2 *)

\* C2: when the fundamentals API raises an API error for a year of a statement
\* request, the call ends with DataError wrapping that error, returns no mapping
\* (not even the years read before), and fetches no later year.
C2_ApiErrorAbortsStatementRange ==
  IsStatement =>
    \A j \in 1..NumCalls :
      last.calls[j].outcome.kind = "ApiException" =>
        /\ last.raised = "DataError"
        /\ last.cause = "ApiException"
        /\ last.value = NoValue
        /\ j = NumCalls

\* the API fails for 2019 after 2018 was fetched
C2_Witness ==
  /\ IsStatement
  /\ last.req.year_from = 2018 /\ last.req.year_to = 2019
  /\ NumCalls = 2
  /\ last.calls[1].outcome.kind = "response"
  /\ last.calls[2].outcome.kind = "ApiException"
  /\ last.raised = "DataError"

-----------------------------------------------------------------------------
(* C3 *)

\* the raw statement the request used for year y: the one the cache holds afterwards
RawStatement(y) ==
  store[PyStr(statement_cache_key(upper(last.req.ticker), last.req.statement_name, "FY", y))]
    .standardized_financials

TagsOf(raw) == {raw[j].data_tag.tag : j \in 1..Len(raw)}

\* C3: the per-year mapping of a statement request holds only tags of tag_filter,
\* each with the value it has in the mapping produced with no filter; with no
\* filter (None) it holds every tag of the raw statement.
C3_FilterKeepsRequestedTagsAndValues ==
  (IsStatement /\ Returned) =>
    \A y \in DOMAIN last.value :
      LET got == last.value[y]
          unfiltered == transform_financial_stmt(RawStatement(y), PyNone)
          filter == last.req.tag_filter_list
      IN /\ DOMAIN unfiltered = TagsOf(RawStatement(y))
         /\ IF filter = PyNone
              THEN DOMAIN got = TagsOf(RawStatement(y))
              ELSE /\ \A tag \in DOMAIN got : InList(tag, filter)
                   /\ \A tag \in DOMAIN got : tag \in DOMAIN unfiltered /\ got[tag] = unfiltered[tag]

\* the end-to-end scenario: years 2018-2019, filter [totalrevenue], raw statements
\* {2018: totalrevenue=1000, other=5; 2019: totalrevenue=1100}
C3_Witness ==
  /\ IsStatement /\ Returned
  /\ last.req.tag_filter_list = PyList(<<"totalrevenue">>)
  /\ last.req.year_from = 2018 /\ last.req.year_to = 2019
  /\ RawStatement(2018) = <<Financial("totalrevenue", 1000), Financial("other", 5)>>
  /\ RawStatement(2019) = <<Financial("totalrevenue", 1100)>>
  /\ last.value = (2018 :> ("totalrevenue" :> 1000)) @@ (2019 :> ("totalrevenue" :> 1100))

-----------------------------------------------------------------------------
(* C4 *)

\* the records of the raw response a price or metric operation worked on
RecordsUsed ==
  IF last.response.type = "ApiResponseSecurityStockPrices"
    THEN last.response.stock_prices
    ELSE last.response.historical_data

\* C4: whenever the raw response a price or metric operation works on holds zero
\* records, fetched just now or read from the cache, the operation raises
\* DataError: no other exception and no empty mapping.
C4_ZeroRecordsRaiseDataError ==
  ((IsPrice \/ IsMetrics \/ IsMetric) /\ last.response # PyNone /\ RecordsUsed = <<>>) =>
    last.raised = "DataError" /\ last.value = NoValue

\* a metric series request served from the cache, whose cached response is empty
C4_Witness ==
  /\ IsMetrics /\ NumCalls = 0
  /\ last.response # PyNone /\ RecordsUsed = <<>>
  /\ last.raised = "DataError"

-----------------------------------------------------------------------------
(* C5 *)

\* C5 as stated: a successful statement request returns exactly one entry per year
\* of year_from..year_to (the empty mapping, with no API call, when year_from >
\* year_to), and every key of a returned metric series is a year of
\* [start_year, end_year].
C5_SeriesCoversRequestedRange ==
  /\ (IsStatement /\ Returned) =>
       /\ DOMAIN last.value = last.req.year_from..last.req.year_to
       /\ last.req.year_from > last.req.year_to => (last.value = EmptyDict /\ NumCalls = 0)
  /\ (IsMetrics /\ Returned) =>
       DOMAIN last.value \subseteq last.req.start_year..last.req.end_year

-----------------------------------------------------------------------------
(* C6 *)

EmptyOrAbsent(x) == x = PyStr("") \/ x = PyNone
NotFound == [raised |-> "none", value |-> PyNone]

NoEmptyEntry ==
  \A key \in DOMAIN store : ~EmptyOrAbsent(key) /\ ~EmptyOrAbsent(store[key])

\* C6 as stated: write(key, value) with an empty or absent key or value raises
\* nothing, leaves the store unchanged, and a read(key) that follows returns None;
\* no store state holds an entry with an empty key or an empty or null value.
C6_EmptyWriteThenReadNotFound ==
  /\ []NoEmptyEntry
  /\ [][(last'.op = "write" /\ (EmptyOrAbsent(last'.req.key) \/ EmptyOrAbsent(last'.req.value)))
         => /\ last'.raised = "none"
            /\ store' = store
            /\ read(store', last'.req.key) = NotFound]_vars

\* C6 amended: such a write raises nothing and leaves the store unchanged, so a
\* read(key) that follows returns what it returned before the write: None when the
\* key held no entry (always so for an empty or absent key), and the value stored
\* earlier when the key is non-empty and already held one.  No store state holds
\* an entry with an empty key or an empty or null value.
C6_EmptyWriteIsNoOp ==
  /\ []NoEmptyEntry
  /\ [][(last'.op = "write" /\ (EmptyOrAbsent(last'.req.key) \/ EmptyOrAbsent(last'.req.value)))
         => /\ last'.raised = "none"
            /\ store' = store
            /\ read(store', last'.req.key) = read(store, last'.req.key)
            /\ (EmptyOrAbsent(last'.req.key) \/ last'.req.key \notin DOMAIN store)
                 => read(store', last'.req.key) = NotFound
            /\ (last'.req.key \in DOMAIN store)
                 => read(store', last'.req.key).value = store[last'.req.key]]_vars

\* write("k1", "") on a store that holds "k1": a no-op, and read("k1") still
\* returns the value stored earlier
C6_Witness ==
  /\ last.op = "write"
  /\ last.req.key = PyStr("k1") /\ last.req.value = PyStr("")
  /\ read(store, PyStr("k1")).value = PyStr("v1")

-----------------------------------------------------------------------------
(* C7 *)

\* C7: read(key) never raises; it returns the value of the most recent effective
\* write for the key, and None when no effective write for the key has happened.
C7_ReadReturnsLatestEffectiveWrite ==
  /\ \A key \in DirectKeys \cup DOMAIN store \cup DOMAIN written :
       read(store, key) =
         [raised |-> "none",
          value |-> IF key \in DOMAIN written THEN written[key] ELSE PyNone]
  /\ last.op = "read" =>
       /\ last.raised = "none"
       /\ last.value.object =
            IF last.req.key \in DOMAIN written THEN written[last.req.key] ELSE PyNone

\* a read of a key after an effective write for it
C7_Witness ==
  /\ last.op = "read"
  /\ last.req.key \in DOMAIN written
  /\ last.value.object = PyStr("v1")

-----------------------------------------------------------------------------
(* C8 *)

\* C8 as stated: every failure of an external API call of a data-provider
\* operation reaches the caller as DataError (a recognised API error) or as
\* ValidationError (any other failure), never as another exception, and the
\* failed call is not retried.
C8_ApiFailureIsDataOrValidationError ==
  IsProvider =>
    \A j \in 1..NumCalls :
      LET kind == last.calls[j].outcome.kind
      IN /\ kind = "ApiException" => last.raised = "DataError"
         /\ kind = "Exception" => last.raised = "ValidationError"
         /\ kind # "response" =>
              /\ last.raised \in {"DataError", "ValidationError"}
              /\ j = NumCalls
              /\ \A i \in 1..NumCalls : i # j => last.calls[i].key # last.calls[j].key

-----------------------------------------------------------------------------
(* C9 *)

YearsOf(historical_data) == {historical_data[j].date[1] : j \in 1..Len(historical_data)}

\* the value of the last datapoint of the series dated in the year
ValueOfYear(historical_data, year) ==
  LET at == {j \in 1..Len(historical_data) : historical_data[j].date[1] = year}
      j == CHOOSE j \in at : \A i \in at : i <= j
  IN historical_data[j].value

\* C9: a single-year metric request asks the series operation for year..year and
\* returns the value stored under exactly that year; when the non-empty series has
\* no entry for the year, the caller gets a KeyError: no default, no other year.
C9_SingleYearMetricIsThatYearOrKeyError ==
  IsMetric =>
    LET year == last.req.year
        key == PyStr(metric_cache_key(last.req.ticker, year, year, "yearly", last.req.tag))
    IN /\ \A j \in 1..NumCalls :
            /\ last.calls[j].key = key
            /\ last.calls[j].request.start_date = get_fiscal_year_period(year, 0)[1]
            /\ last.calls[j].request.end_date = get_fiscal_year_period(year, 0)[2]
       /\ last.response # PyNone => (key \in DOMAIN store /\ store[key] = last.response)
       /\ (last.response # PyNone /\ RecordsUsed # <<>>) =>
            IF year \in YearsOf(RecordsUsed)
              THEN Returned /\ last.value = [scalar |-> ValueOfYear(RecordsUsed, year)]
              ELSE last.raised = "KeyError" /\ last.value = NoValue

\* the provider's series for 2019 holds only a 2018 datapoint
C9_Witness ==
  /\ IsMetric
  /\ last.req.year = 2019
  /\ last.response # PyNone /\ YearsOf(RecordsUsed) = {2018}
  /\ last.raised = "KeyError"

-----------------------------------------------------------------------------
(* C10 *)

\* the cache key of a price or metric request
RequestKey(op, req) ==
  IF op = "get_daily_stock_close_prices"
    THEN PyStr(price_cache_key(req.ticker, date_to_string(req.start_date),
                               date_to_string(req.end_date)))
  ELSE IF op = "read_financial_metrics"
    THEN PyStr(metric_cache_key(req.ticker, req.start_year, req.end_year, "yearly", req.tag))
  ELSE PyStr(metric_cache_key(req.ticker, req.year, req.year, "yearly", req.tag))

\* C10: over data-provider operations (eviction aside) a cache entry is created
\* only by a successful external fetch for its key, and a key that holds a value
\* is never overwritten, updated or removed: a later request with that key reads
\* that value and issues no external call for it.
C10_ProviderCacheEntriesAreWriteOnce ==
  [][IsProvider' =>
       /\ \A key \in DOMAIN store : key \in DOMAIN store' /\ store'[key] = store[key]
       /\ \A key \in (DOMAIN store') \ (DOMAIN store) :
            \E j \in 1..Len(last'.calls) :
              /\ last'.calls[j].key = key
              /\ last'.calls[j].outcome = Response(store'[key])
       /\ \A j \in 1..Len(last'.calls) : last'.calls[j].key \notin DOMAIN store
       /\ (~IsStatement' /\ RequestKey(last'.op, last'.req) \in DOMAIN store) =>
            /\ last'.calls = <<>>
            /\ last'.response = store[RequestKey(last'.op, last'.req)]
       /\ IsStatement' =>
            \A y \in last'.req.year_from..last'.req.year_to :
              LET key == PyStr(statement_cache_key(upper(last'.req.ticker),
                                                   last'.req.statement_name, "FY", y))
              IN (key \in DOMAIN store /\ last'.raised = "none") =>
                   last'.value[y] = transform_financial_stmt(store[key].standardized_financials,
                                                             last'.req.tag_filter_list)]_vars

\* a statement request repeated after both of its years were fetched: served
\* from the cache, no external call
C10_Witness ==
  /\ IsStatement /\ last.again
  /\ Len(last.before.calls) = 2 /\ last.before.raised = "none"
  /\ NumCalls = 0 /\ Returned
  /\ DOMAIN last.value = {2018, 2019}

-----------------------------------------------------------------------------
(* C11: the cache keys as a function of the request *)

KeyTickers == {"AAPL", "aapl", "BRK", "BRK-A"}
KeyDateRanges == {<<Day1, Day1>>, <<Day1, Day2>>}
KeyYearRanges == {<<2018, 2018>>, <<2018, 2019>>}
KeyTags == {"totalrevenue", "freecashflow"}
KeyStatementNames == {"income_statement", "A-income_statement"}

\* the logical requests: category, ticker, date or year range, tag or statement name
KeyRequests ==
  {[category |-> "closing-prices", ticker |-> t, start_date |-> r[1], end_date |-> r[2]] :
     t \in KeyTickers, r \in KeyDateRanges}
  \cup {[category |-> "metric", ticker |-> t, start_year |-> r[1], end_year |-> r[2], tag |-> g] :
          t \in KeyTickers, r \in KeyYearRanges, g \in KeyTags}
  \cup {[category |-> "statement", ticker |-> t, statement_name |-> s, year |-> y] :
          t \in KeyTickers, s \in KeyStatementNames, y \in Years}

\* the key string the data provider builds for a request
cache_key_of(request) ==
  IF request.category = "closing-prices"
    THEN price_cache_key(request.ticker, date_to_string(request.start_date),
                         date_to_string(request.end_date))
  ELSE IF request.category = "metric"
    THEN metric_cache_key(request.ticker, request.start_year, request.end_year, "yearly",
                          request.tag)
  ELSE statement_cache_key(upper(upper(request.ticker)), request.statement_name, "FY",
                           request.year)

\* two requests are about to be keyed
KeyInit ==
  /\ store = EmptyDict
  /\ written = EmptyDict
  /\ n = 0
  /\ \E a \in KeyRequests, b \in KeyRequests :
       last = [op |-> "requests", req |-> [a |-> a, b |-> b], raised |-> "none",
               cause |-> "none", value |-> NoValue, calls |-> <<>>, writes |-> <<>>,
               response |-> PyNone, again |-> FALSE, before |-> NoBefore]

\* the provider builds the key of each of the two requests
BuildCacheKeys ==
  /\ last.op = "requests"
  /\ last' = [last EXCEPT !.op = "cache_keys",
                          !.value = <<cache_key_of(last.req.a), cache_key_of(last.req.b)>>]
  /\ n' = n + 1
  /\ UNCHANGED <<store, written>>

KeyNext == BuildCacheKeys

KeySpec == KeyInit /\ [][KeyNext]_vars

\* C11 as stated: the same request always builds the same key string, and two
\* requests that differ in category, ticker, date or year range, or tag or
\* statement name never build the same key string, across the price, metric and
\* statement key formats together.
C11_CacheKeyIsInjective ==
  last.op = "cache_keys" =>
    /\ last.req.a = last.req.b => last.value[1] = last.value[2]
    /\ last.req.a # last.req.b => last.value[1] # last.value[2]

-----------------------------------------------------------------------------
(* C12 *)

ZeroRecords(response) ==
  IF response.type = "ApiResponseSecurityStockPrices"
    THEN response.stock_prices = <<>>
    ELSE response.historical_data = <<>>

\* C12: a price or metric operation writes the raw response to the cache before
\* it checks it for zero records, so a zero-record response is cached; every later
\* call with the same arguments raises DataError from the cached response and
\* does not contact the external API.
C12_ZeroRecordResponseIsCachedAndNeverRefetched ==
  /\ []((IsPrice \/ IsMetrics \/ IsMetric) =>
          /\ \A j \in 1..NumCalls :
               (last.calls[j].outcome.kind = "response"
                  /\ ZeroRecords(last.calls[j].outcome.body)) =>
                 /\ last.raised = "DataError"
                 /\ last.writes = <<Wrote(last.calls[j].key, last.calls[j].outcome.body)>>
                 /\ RequestKey(last.op, last.req) = last.calls[j].key
                 /\ store[last.calls[j].key] = last.calls[j].outcome.body
          /\ (last.again /\ last.before.raised = "DataError" /\ last.before.cause = "none") =>
               /\ NumCalls = 0
               /\ last.raised = "DataError" /\ last.cause = "none"
               /\ ZeroRecords(last.response))
  /\ [][((IsPrice' \/ IsMetrics' \/ IsMetric')
           /\ RequestKey(last'.op, last'.req) \in DOMAIN store
           /\ ZeroRecords(store[RequestKey(last'.op, last'.req)])) =>
          /\ last'.calls = <<>>
          /\ last'.raised = "DataError" /\ last'.cause = "none"
          /\ store' = store]_vars

\* a single-year metric request whose provider response was empty, then repeated:
\* DataError again, from the cache, with no external call
C12_Witness ==
  /\ IsMetric /\ last.again
  /\ Len(last.before.calls) = 1
  /\ last.before.calls[1].outcome.kind = "response"
  /\ last.before.raised = "DataError"
  /\ NumCalls = 0
  /\ last.raised = "DataError"
  /\ ZeroRecords(store[RequestKey(last.op, last.req)])

-----------------------------------------------------------------------------
(* C13 *)

StatementKey(y) ==
  PyStr(statement_cache_key(upper(last.req.ticker), last.req.statement_name, "FY", y))

\* the year a statement request failed at: the year of its last external call
FailedYear ==
  CHOOSE y \in last.req.year_from..last.req.year_to :
    StatementKey(y) = last.calls[NumCalls].key

\* C13: a statement request over [year_from, year_to] that fails at year k leaves
\* the cache with the entries of the years before k and with no entry for year k;
\* an identical retry issues no external call for the years before k and issues
\* its first external call for year k.  A failed external call of any
\* data-provider operation writes nothing under the failing key.
C13_FailedCallWritesNothingAndRetryResumesAtFailedYear ==
  /\ IsProvider =>
       \A j \in 1..NumCalls :
         last.calls[j].outcome.kind # "response" =>
           /\ last.calls[j].key \notin DOMAIN store
           /\ \A i \in 1..Len(last.writes) : last.writes[i].key # last.calls[j].key
  /\ (IsStatement /\ ~Returned) =>
       /\ NumCalls >= 1
       /\ \E y \in last.req.year_from..last.req.year_to : StatementKey(y) = last.calls[NumCalls].key
       /\ \A y \in last.req.year_from..last.req.year_to :
            /\ y < FailedYear => StatementKey(y) \in DOMAIN store
            /\ y = FailedYear => StatementKey(y) \notin DOMAIN store
       /\ \A j \in 1..(NumCalls - 1) :
            /\ last.calls[j].outcome.kind = "response"
            /\ store[last.calls[j].key] = last.calls[j].outcome.body
  /\ (IsStatement /\ last.again /\ last.before.raised # "none") =>
       /\ NumCalls >= 1
       /\ last.calls[1].key = last.before.calls[Len(last.before.calls)].key

\* a request for 2018-2019 failed at 2019 after 2018 was fetched; the identical
\* retry issues its first external call for 2019
C13_Witness ==
  /\ IsStatement /\ last.again
  /\ last.req.year_from = 2018 /\ last.req.year_to = 2019
  /\ Len(last.before.calls) = 2 /\ last.before.raised # "none"
  /\ NumCalls = 1
  /\ last.calls[1].key = StatementKey(2019)
  /\ StatementKey(2018) \in DOMAIN store

====
